---- MODULE Spec2Model ----
(***************************************************************************)
(* gwg: webhook-triggered git mirror synchroniser (src/main.go).           *)
(*                                                                         *)
(* The model follows main.go statement by statement wherever a statement   *)
(* reads or writes state shared between goroutines: the Busy flag of a     *)
(* repo record, the global configuration C, the jobs channel, the permit   *)
(* channel sem, the reload mutex and the git checkout on disk.  Statements *)
(* that touch only goroutine-local data are folded into the neighbouring   *)
(* shared step.  Logging is left out.                                      *)
(***************************************************************************)
EXTENDS Integers, Sequences, FiniteSets, TLC

(* ------------------------------ bounds -------------------------------- *)
\* jobs the model lets be enqueued (webhooks plus initial clones)
MaxJobs == 2
\* retry_count values of a configuration: 0..MaxRetry
MaxRetry == 2
\* threads values of a configuration: 1..MaxThreads
MaxThreads == 2
\* file-change notifications the model lets arrive
MaxNotif == 2
\* jobs enqueued in the behaviours with configuration reloads
MaxReloadJobs == 1
\* last second of the clock
MaxTime == 7
\* longest repository list of a configuration with duplicate paths
MaxRepos == 3

(* ------------------------- program constants -------------------------- *)
\* make(chan *job, 100)
QueueCap == 100
\* the debounce window of the reload callback, in nanoseconds
DebounceNanos == 250229410
NanosPerSecond == 1000000000
\* seconds the reload callback sleeps between two polls of the busy flags
ReloadPollSeconds == 5
\* seconds the signal handler sleeps between two polls of the busy flags
ShutdownPollSeconds == 5

(* --------------------------- git objects ------------------------------ *)
\* Hashes of the object store.  NoHash stands for "reference not found".
NoHash == 0
Commits == {1, 2}
\* annotated tag objects; each has its own hash and a Target commit
TagObjects == {3}
Hashes == Commits \cup TagObjects

\* atag.Target of the tag object with hash h
TagTarget(h) == IF h = 3 THEN 2 ELSE NoHash

\* repo.TagObject(h) succeeds exactly for the hash of a tag object
IsTagObject(h) == h \in TagObjects

\* what a reference of the given label kind can point to after a fetch:
\* a branch points to a commit, a tag to a commit (lightweight) or to a
\* tag object (annotated)
RefValues(labelType) == IF labelType = "tag" THEN Hashes ELSE Commits

(* --------------------------- configuration ---------------------------- *)
Dirs == {1, 2}

\* the repository list of the configuration file, after setRepoDefaults
RepoA == [URL |-> "git@host:a.git", Path |-> <<"/", "a">>, Directory |-> 1,
          Label |-> <<"master">>, LabelType |-> "branch", Secret |-> "s1",
          Trigger |-> TRUE, Busy |-> FALSE]

RepoB == [URL |-> "git@host:b.git", Path |-> <<"/", "b">>, Directory |-> 2,
          Label |-> <<"v1">>, LabelType |-> "tag", Secret |-> "s2",
          Trigger |-> TRUE, Busy |-> FALSE]

RepoList == <<RepoA, RepoB>>

(* ------------------------------ lookup -------------------------------- *)
\* cleanURL: strip one trailing slash
cleanURL(url) ==
  IF url[Len(url)] = "/" THEN SubSeq(url, 1, Len(url) - 1) ELSE url

\* mutant of FindRepo: a later record of the same path wins
FindRepo_Last(rs, path) ==
  LET hits == { r \in 1..Len(rs) : rs[r].Path = cleanURL(path) }
  IN  IF hits = {} THEN <<0, FALSE>>
      ELSE <<CHOOSE r \in hits : \A q \in hits : r >= q, TRUE>>

\* c.FindRepo(path) for the repo list rs: <<index, found>>; the first
\* record whose Path equals the cleaned path, <<0, FALSE>> when none does
FindRepo(rs, path) ==
  LET hits == { r \in 1..Len(rs) : rs[r].Path = cleanURL(path) }
  IN  IF hits = {} THEN <<0, FALSE>>
      ELSE <<CHOOSE r \in hits : \A q \in hits : r <= q, TRUE>>

\* c.validatePathsUniq(): the loop over c.Repos with the map of the paths
\* seen so far; log is the sequence of repos it has warned about
RECURSIVE validatePathsLoop(_, _, _, _)
validatePathsLoop(rs, i, paths, log) ==
  IF i > Len(rs) THEN log
  ELSE validatePathsLoop(rs, i + 1, paths \cup {rs[i].Path},
                         IF rs[i].Path \in paths THEN Append(log, i) ELSE log)

validatePathsUniq(rs) == validatePathsLoop(rs, 1, {}, << >>)

(* ------------------------------ requests ------------------------------ *)
\* the reference name of a repo's label: refs/tags/<label> for a tag,
\* refs/heads/<label> for a branch
RefName(rec) ==
  <<IF rec.LabelType = "tag" THEN "refs/tags/" ELSE "refs/heads/">> \o rec.Label

\* the push webhook the forge sends to path for a push to rec's label,
\* signed with the given secret
Push(rec, path, key) ==
  [path |-> path, key |-> key, type |-> "push", url |-> rec.URL, ref |-> RefName(rec)]

NoRequest == [path |-> << >>, key |-> "", type |-> "", url |-> "", ref |-> << >>]

NoReq == [pc |-> "idle", r |-> NoRequest, idx |-> 0]

\* the requests of an ordinary run: pushes to both repositories, one of them
\* on a path with a trailing slash, a request to an unknown path, one with
\* a wrong signature and an event that is not a push
PushRequests ==
  { Push(RepoA, <<"/", "a", "/">>, "s1"), Push(RepoB, <<"/", "b">>, "s2"),
    Push(RepoA, <<"/", "c">>, "s1"), Push(RepoA, <<"/", "a">>, "s2"),
    [Push(RepoB, <<"/", "b">>, "s2") EXCEPT !.type = "ping"] }

\* a second repository configured under the path of RepoA
RepoA2 == [RepoB EXCEPT !.Path = <<"/", "a">>]

RepoChoices == {RepoA, RepoB, RepoA2}

\* the repository lists of up to MaxRepos entries
RepoLists == UNION { [1..n -> RepoChoices] : n \in 1..MaxRepos }

Labels == { <<"master">>, <<"v1">> }

\* the ref of an event: a label under refs/heads/, refs/tags/ or
\* refs/pull/, or a bare label
Refs ==
  { <<p>> \o l : p \in {"refs/heads/", "refs/tags/", "refs/pull/"}, l \in Labels }
    \cup Labels

\* every request of the model: any path, signed with any secret, a push of
\* any ref of any repository, or a ping
AllRequests ==
  { [path |-> p, key |-> k, type |-> "push", url |-> u, ref |-> r] :
      p \in { <<"/", "a">>, <<"/", "a", "/">>, <<"/", "b">>, <<"/", "c">> },
      k \in {"s1", "s2"}, u \in {RepoA.URL, RepoB.URL}, r \in Refs }
    \cup { [q EXCEPT !.type = "ping"] : q \in PushRequests }

(* ------------------------------- state -------------------------------- *)
VARIABLES
  C,        \* the global config: Threads, RetryCount, Initialise, LastUpdate,
            \* Repos (the generation whose backing array C.Repos points to)
  repos,    \* repos[g]: the repo records of configuration generation g
  jobs,     \* passer.jobs, the channel of pending jobs
  sem,      \* number of permits held in process()'s sem channel
  threads,  \* the capacity sem was made with
  gor,      \* the goroutines process() has started, one per pulled job
  store,    \* the checkouts on disk, per directory
  touches,  \* the directories whose trigger file has been touched
  main,     \* main(): pc, and initialClone's range (gen) and index (idx)
  budget,   \* number of jobs the environment may still cause to be enqueued
  passer,   \* the DataPasser's threads field
  mutex,    \* the reload mutex is locked
  cb,       \* the OnConfigChange callbacks, one per file-change notification
  sig,      \* the signal handler goroutine
  now,      \* the clock, in seconds
  exited,   \* os.Exit was called
  req,      \* the webhook request handleFunc is serving
  warned,   \* the repos the latest validatePathsUniq call warned about
  env       \* what the outside world does in this behaviour: the requests
            \* clients send, the contents the configuration file takes and
            \* the number of times it changes

vars == <<C, repos, jobs, sem, threads, gor, store, touches, main, budget,
          passer, mutex, cb, sig, now, exited, req, warned, env>>

JobIds == 1..MaxJobs

\* the process has not called os.Exit: its goroutines run
Running == ~exited

\* the record a *repo pointer <<g, i>> points to
Rec(p) == repos[p[1]][p[2]]

\* mutant of finished: the flag is left set
finished_Skipped(p) == repos

\* r.finished()
finished(p) == [repos EXCEPT ![p[1]][p[2]].Busy = FALSE]

\* r.Busy = true
setBusy(p) == [repos EXCEPT ![p[1]][p[2]].Busy = TRUE]

NoGor == [pc |-> "none", repo |-> <<0, 0>>, jobType |-> "", i |-> 0,
          remoteRef |-> NoHash, targetHash |-> NoHash, localRef |-> NoHash,
          nfetch |-> 0, fetched |-> "", resolved |-> FALSE,
          resetTo |-> NoHash, verified |-> NoHash, touched |-> FALSE,
          exit |-> ""]

\* label kind of the repository checked out in directory d
LabelOf(d) == (CHOOSE i \in 1..Len(RepoList) : RepoList[i].Directory = d)
LabelTypeOf(d) == RepoList[LabelOf(d)].LabelType

NoCheckout == [exists |-> FALSE, ref |-> NoHash, head |-> NoHash]

\* a directory is absent, or holds a checkout whose tracked reference
\* points to some object of its kind
InitStore ==
  { s \in [Dirs -> [exists : {TRUE}, ref : Hashes, head : {1}] \cup {NoCheckout}] :
      \A d \in Dirs : s[d].exists => s[d].ref \in RefValues(LabelTypeOf(d)) }

\* the part of the state outside main(), process() and the jobs
ReloadVars == <<passer, mutex, cb, sig, now, exited, req, warned, env>>

NoCb == [pc |-> "none", arrived |-> 0, newC |-> << >>, repos |-> 0, idx |-> 0,
         repoBusy |-> FALSE, wake |-> 0, installed |-> FALSE]

NoSig == [pc |-> "none", repos |-> 0, idx |-> 0, busy |-> FALSE, wake |-> 0]

\* the state after main() ran up to "go process(passer.jobs, passer.threads)"
Startup(n) ==
  /\ repos = [g \in {0} |-> RepoList]
  /\ jobs = << >>
  /\ sem = 0
  /\ threads = C.Threads
  /\ passer = C.Threads
  /\ gor = [j \in JobIds |-> NoGor]
  /\ touches = {}
  /\ main = [pc |-> "initialClone", gen |-> 0, idx |-> 1]
  /\ budget = n
  /\ mutex = FALSE
  /\ cb = [c \in 1..MaxNotif |-> NoCb]
  /\ sig = NoSig
  /\ now = 0
  /\ exited = FALSE
  /\ req = NoReq
  /\ warned = validatePathsUniq(RepoList)

Init ==
  /\ C \in [Threads : 1..MaxThreads, RetryCount : 0..MaxRetry,
            Initialise : BOOLEAN, LastUpdate : {0}, Repos : {0}]
  /\ store \in InitStore
  /\ env = [requests |-> PushRequests, configs |-> {RepoList}, notifs |-> 0]
  /\ Startup(MaxJobs)

(* --------------------------- jobs channel ----------------------------- *)
\* p.jobs <- &job{repo: ptr, jobType: t}; the send blocks on a full channel
Send(ptr, t) ==
  /\ Len(jobs) < QueueCap
  /\ budget > 0
  /\ jobs' = Append(jobs, [repo |-> ptr, jobType |-> t])
  /\ budget' = budget - 1

(* ------------------------------ main() -------------------------------- *)
\* C.Repos[idx] panics when idx is out of range
InRange(idx) == idx <= Len(repos[C.Repos])

\* mutant of InitialCloneBegin: the initialise option is not consulted
InitialCloneBegin_Always ==
  /\ Running
  /\ main.pc = "initialClone"
  /\ main' = [pc |-> "range", gen |-> C.Repos, idx |-> 1]
  /\ UNCHANGED <<C, repos, jobs, sem, threads, gor, store, touches, budget, ReloadVars>>

\* c.initialClone(), entry: the range expression c.Repos is evaluated once
InitialCloneBegin ==
  /\ Running
  /\ main.pc = "initialClone"
  /\ main' = IF C.Initialise
             THEN [pc |-> "range", gen |-> C.Repos, idx |-> 1]
             ELSE [main EXCEPT !.pc = "serve"]
  /\ UNCHANGED <<C, repos, jobs, sem, threads, gor, store, touches, budget, ReloadVars>>

\* one iteration of initialClone's loop: os.Stat on the Directory of the
\* range's copy r, and for a missing directory a clone job for
\* &c.Repos[idx], the record c.Repos holds at this moment (c is &C; the
\* repository lists of the model have one length, so idx is in range)
InitialCloneStep ==
  /\ Running
  /\ main.pc = "range"
  /\ main.idx <= Len(repos[main.gen])
  /\ IF ~store[repos[main.gen][main.idx].Directory].exists
     THEN InRange(main.idx) /\ Send(<<C.Repos, main.idx>>, "clone")
     ELSE UNCHANGED <<jobs, budget>>
  /\ main' = [main EXCEPT !.idx = @ + 1]
  /\ UNCHANGED <<C, repos, sem, threads, gor, store, touches, ReloadVars>>

\* end of initialClone; http.ListenAndServe starts accepting requests
InitialCloneEnd ==
  /\ Running
  /\ main.pc = "range"
  /\ main.idx > Len(repos[main.gen])
  /\ main' = [main EXCEPT !.pc = "serve"]
  /\ UNCHANGED <<C, repos, jobs, sem, threads, gor, store, touches, budget, ReloadVars>>

(* ------------------------ DataPasser.handleFunc ---------------------- *)
\* strings.TrimPrefix(s, prefix): s without the prefix when it starts with
\* it, else s unchanged
TrimPrefix(s, prefix) ==
  IF Len(s) >= Len(prefix) /\ SubSeq(s, 1, Len(prefix)) = prefix
  THEN SubSeq(s, Len(prefix) + 1, Len(s))
  ELSE s

\* the test a push event must pass against the repo record
Matches(rec, r) ==
  /\ rec.URL = r.url
  /\ \/ rec.Label = TrimPrefix(r.ref, <<"refs/heads/">>)
     \/ rec.Label = TrimPrefix(r.ref, <<"refs/tags/">>)

HandlerUnchanged ==
  UNCHANGED <<C, repos, sem, threads, gor, store, touches, main, passer, mutex,
              cb, sig, now, exited, warned, env>>

\* (in a handler net/http recovers the panic of an index out of range, and
\* the request ends)
\* a request r arrives: idx, ok := C.FindRepo(r.URL.Path); if !ok { return }
Serve(r) ==
  /\ Running
  /\ main.pc = "serve"
  /\ req.pc = "idle"
  /\ budget > 0
  /\ LET f == FindRepo(repos[C.Repos], r.path) IN
       req' = IF f[2] THEN [pc |-> "validate", r |-> r, idx |-> f[1]] ELSE NoReq
  /\ HandlerUnchanged /\ UNCHANGED <<jobs, budget>>

\* github.ValidatePayload(r, C.Repos[idx].Secret) and github.ParseWebHook:
\* the signature of the body is checked against the secret of the record
\* C.Repos[idx] is at this moment
ValidatePayload ==
  /\ Running
  /\ req.pc = "validate"
  /\ req' = IF InRange(req.idx) /\ req.r.key = repos[C.Repos][req.idx].Secret
            THEN [req EXCEPT !.pc = "event"]
            ELSE NoReq
  /\ HandlerUnchanged /\ UNCHANGED <<jobs, budget>>

\* switch e := event.(type): a push event that matches C.Repos[idx] sends
\* a job for &C.Repos[idx]; every other event is logged and dropped
PushEvent ==
  /\ Running
  /\ req.pc = "event"
  /\ IF req.r.type = "push" /\ InRange(req.idx)
        /\ Matches(repos[C.Repos][req.idx], req.r)
     THEN Send(<<C.Repos, req.idx>>, "update")
     ELSE UNCHANGED <<jobs, budget>>
  /\ req' = NoReq
  /\ HandlerUnchanged

handleFunc ==
  \/ \E r \in env.requests : Serve(r)
  \/ ValidatePayload
  \/ PushEvent

(* ----------------------------- process() ------------------------------ *)
\* case j := <-jobs: go func() {...}()
process ==
  /\ Running
  /\ jobs # << >>
  /\ \E k \in JobIds :
       /\ gor[k].pc = "none"
       /\ \A q \in JobIds : q < k => gor[q].pc # "none"
       /\ gor' = [gor EXCEPT ![k] = [NoGor EXCEPT !.pc = "spawned",
                                        !.repo = Head(jobs).repo,
                                        !.jobType = Head(jobs).jobType]]
  /\ jobs' = Tail(jobs)
  /\ UNCHANGED <<C, repos, sem, threads, store, touches, main, budget, ReloadVars>>

\* mutant of PermitFree: a send to sem that never blocks
PermitFree_Unbounded == TRUE

\* the permit channel has room for one more send
PermitFree == sem < threads

\* sem <- struct{}{}
Acquire(k) ==
  /\ Running
  /\ gor[k].pc = "spawned"
  /\ PermitFree
  /\ sem' = sem + 1
  /\ gor' = [gor EXCEPT ![k].pc = "wait"]
  /\ UNCHANGED <<C, repos, jobs, threads, store, touches, main, budget, ReloadVars>>

\* mutant of Release: the goroutine ends without receiving from sem
Release_Kept(k) ==
  /\ Running
  /\ gor[k].pc = "release"
  /\ gor' = [gor EXCEPT ![k] = [NoGor EXCEPT !.pc = "done"]]
  /\ UNCHANGED <<C, repos, jobs, sem, threads, store, touches, main, budget, ReloadVars>>

\* <-sem, and the goroutine ends (its locals are gone)
Release(k) ==
  /\ Running
  /\ gor[k].pc = "release"
  /\ sem' = sem - 1
  /\ gor' = [gor EXCEPT ![k] = [NoGor EXCEPT !.pc = "done"]]
  /\ UNCHANGED <<C, repos, jobs, threads, store, touches, main, budget, ReloadVars>>

(* ----------------------- repo.waitForCompletion ----------------------- *)
JobVarsUnchanged == UNCHANGED <<C, jobs, sem, threads, main, budget, ReloadVars>>

\* Directory of the record goroutine k works on
DirOf(k) == Rec(gor[k].repo).Directory

\* one evaluation of "if r.Busy": busy, so time.Sleep(3 * time.Second)
WaitBusy(k) ==
  /\ Running
  /\ gor[k].pc = "wait"
  /\ Rec(gor[k].repo).Busy
  /\ gor' = [gor EXCEPT ![k].pc = "sleep"]
  /\ JobVarsUnchanged /\ UNCHANGED <<repos, store, touches>>

\* the sleep is over, back to the head of the loop
WaitWake(k) ==
  /\ Running
  /\ gor[k].pc = "sleep"
  /\ gor' = [gor EXCEPT ![k].pc = "wait"]
  /\ JobVarsUnchanged /\ UNCHANGED <<repos, store, touches>>

\* one evaluation of "if r.Busy": idle, so break and return
WaitIdle(k) ==
  /\ Running
  /\ gor[k].pc = "wait"
  /\ ~Rec(gor[k].repo).Busy
  /\ gor' = [gor EXCEPT ![k].pc = "setBusy"]
  /\ JobVarsUnchanged /\ UNCHANGED <<repos, store, touches>>

\* r.Busy = true, the statement after waitForCompletion returned
SetBusy(k) ==
  /\ Running
  /\ gor[k].pc = "setBusy"
  /\ repos' = setBusy(gor[k].repo)
  /\ gor' = [gor EXCEPT ![k].pc = IF gor[k].jobType = "clone" THEN "clone" ELSE "open"]
  /\ JobVarsUnchanged /\ UNCHANGED <<store, touches>>

\* return: the deferred r.finished() runs
Finished(k) ==
  /\ Running
  /\ gor[k].pc = "finished"
  /\ repos' = finished(gor[k].repo)
  /\ gor' = [gor EXCEPT ![k].pc = "release"]
  /\ JobVarsUnchanged /\ UNCHANGED <<store, touches>>

\* a return statement of clone/update: the locals go out of scope, what is
\* left is the deferred call
Return(g, why) ==
  [g EXCEPT !.pc = "finished", !.exit = why, !.i = 0, !.remoteRef = NoHash,
            !.targetHash = NoHash, !.localRef = NoHash]

(* --------------------------- repo.touchTrigger ------------------------ *)
\* r.touchTrigger(): os.Chtimes (or the create fallback) on r.Trigger
touchTrigger(k) ==
  /\ Running
  /\ gor[k].pc = "touch"
  /\ touches' = IF Rec(gor[k].repo).Trigger
                THEN touches \cup {DirOf(k)}
                ELSE touches
  /\ gor' = [gor EXCEPT ![k] = Return([@ EXCEPT !.touched = TRUE], "success")]
  /\ JobVarsUnchanged /\ UNCHANGED <<repos, store>>

(* ------------------------------ repo.clone ---------------------------- *)
\* the commit a reference value designates
CommitOf(h) == IF IsTagObject(h) THEN TagTarget(h) ELSE h

\* ssh.NewPublicKeysFromFile and git.PlainClone.  The clone fails on an
\* existing directory; a failed clone may leave a partial checkout behind.
clone(k) ==
  /\ Running
  /\ gor[k].pc = "clone"
  /\ LET d == DirOf(k) IN
     \/ /\ gor' = [gor EXCEPT ![k] = Return(@, "auth")]
        /\ UNCHANGED store
     \/ /\ gor' = [gor EXCEPT ![k] = Return(@, "clone")]
        /\ \/ UNCHANGED store
           \/ /\ ~store[d].exists
              /\ store' = [store EXCEPT ![d] = [exists |-> TRUE, ref |-> NoHash,
                                                head |-> NoHash]]
     \/ /\ ~store[d].exists
        /\ \E h \in RefValues(Rec(gor[k].repo).LabelType) :
             store' = [store EXCEPT ![d] = [exists |-> TRUE, ref |-> h,
                                            head |-> CommitOf(h)]]
        /\ gor' = [gor EXCEPT ![k].pc = "touch"]
  /\ JobVarsUnchanged /\ UNCHANGED <<repos, touches>>

(* ------------------------------ repo.update --------------------------- *)
\* ssh.NewPublicKeysFromFile, git.PlainOpen, repo.Worktree
Open(k) ==
  /\ Running
  /\ gor[k].pc = "open"
  /\ \/ gor' = [gor EXCEPT ![k] = Return(@, "auth")]
     \/ gor' = [gor EXCEPT ![k] = Return(@, "open")]
     \/ /\ store[DirOf(k)].exists
        /\ gor' = [gor EXCEPT ![k].pc = "loop"]
  /\ JobVarsUnchanged /\ UNCHANGED <<repos, store, touches>>

\* mutant of LoopCond: one attempt more than retry_count
LoopCond_OneMore(i) == i <= C.RetryCount

\* the loop condition i < C.RetryCount
LoopCond(i) == i < C.RetryCount

\* for i := 0; i < C.RetryCount; i++: enter the body, or fall out of the loop
Loop(k) ==
  /\ Running
  /\ gor[k].pc = "loop"
  /\ gor' = [gor EXCEPT ![k].pc = IF LoopCond(gor[k].i) THEN "fetch" ELSE "resolve"]
  /\ JobVarsUnchanged /\ UNCHANGED <<repos, store, touches>>

\* mutant of AfterFetch: NoErrAlreadyUpToDate handled like nil
AfterFetch_UpToDateBreaks(g, err) ==
  CASE err \in {"nil", "uptodate"} -> [g EXCEPT !.pc = "resolve"]
    [] OTHER                       -> [g EXCEPT !.pc = "loop", !.i = @ + 1]

\* what the loop body does with the result of repo.Fetch: break on nil,
\* return on NoErrAlreadyUpToDate, sleep and continue on any other error
AfterFetch(g, err) ==
  CASE err = "nil"      -> [g EXCEPT !.pc = "resolve"]
    [] err = "uptodate" -> Return(g, "uptodate")
    [] OTHER            -> [g EXCEPT !.pc = "loop", !.i = @ + 1]

\* repo.Fetch: nil after it updated references (the tracked one takes any
\* value of its kind), NoErrAlreadyUpToDate, or a genuine error
Fetch(k) ==
  /\ Running
  /\ gor[k].pc = "fetch"
  /\ LET d == DirOf(k)
         g == [gor[k] EXCEPT !.nfetch = @ + 1]
     IN
     \/ \E h \in RefValues(Rec(gor[k].repo).LabelType) :
          /\ store' = [store EXCEPT ![d].ref = h]
          /\ gor' = [gor EXCEPT ![k] = AfterFetch([g EXCEPT !.fetched = "nil"], "nil")]
     \/ /\ gor' = [gor EXCEPT ![k] =
                     AfterFetch([g EXCEPT !.fetched = "uptodate"], "uptodate")]
        /\ UNCHANGED store
     \/ /\ gor' = [gor EXCEPT ![k] = AfterFetch([g EXCEPT !.fetched = "error"], "error")]
        /\ UNCHANGED store
  /\ JobVarsUnchanged /\ UNCHANGED <<repos, touches>>

\* mutant of TargetHash: the tag object is not dereferenced
TargetHash_NoDeref(h) == h

\* targetHash: the reference hash, amended to atag.Target when
\* repo.TagObject finds a tag object under that hash
TargetHash(h) == IF IsTagObject(h) THEN TagTarget(h) ELSE h

\* repo.Reference(ref) and repo.TagObject
Resolve(k) ==
  /\ Running
  /\ gor[k].pc = "resolve"
  /\ LET h == store[DirOf(k)].ref IN
       gor' = [gor EXCEPT ![k] =
                 IF h = NoHash THEN Return(@, "reference")
                 ELSE [@ EXCEPT !.pc = "head", !.resolved = TRUE,
                                !.remoteRef = h, !.targetHash = TargetHash(h)]]
  /\ JobVarsUnchanged /\ UNCHANGED <<repos, store, touches>>

\* the "Already up to date" test
UpToDate(remoteRef, targetHash, localRef) == remoteRef = localRef

\* repo.Reference("HEAD") and the comparison with the remote reference
Head_(k) ==
  /\ Running
  /\ gor[k].pc = "head"
  /\ LET h == store[DirOf(k)].head IN
       gor' = [gor EXCEPT ![k] =
                 IF h = NoHash THEN Return(@, "reference")
                 ELSE IF UpToDate(@.remoteRef, @.targetHash, h)
                      THEN Return([@ EXCEPT !.localRef = h], "same")
                      ELSE [@ EXCEPT !.pc = "reset", !.localRef = h]]
  /\ JobVarsUnchanged /\ UNCHANGED <<repos, store, touches>>

\* w.Reset(HardReset, targetHash)
Reset(k) ==
  /\ Running
  /\ gor[k].pc = "reset"
  /\ LET g == [gor[k] EXCEPT !.resetTo = gor[k].targetHash] IN
     \/ /\ store' = [store EXCEPT ![DirOf(k)].head = gor[k].targetHash]
        /\ gor' = [gor EXCEPT ![k] = [g EXCEPT !.pc = "verify"]]
     \/ /\ gor' = [gor EXCEPT ![k] = Return(g, "reset")]
        /\ UNCHANGED store
  /\ JobVarsUnchanged /\ UNCHANGED <<repos, touches>>

\* mutant of Confirmed: the re-read HEAD is not compared
Confirmed_Unchecked(headRef, targetHash) == TRUE

\* the confirmation test headRef.Hash() == targetHash
Confirmed(headRef, targetHash) == headRef = targetHash

\* repo.Reference("HEAD") after the reset, and the confirmation
Verify(k) ==
  /\ Running
  /\ gor[k].pc = "verify"
  /\ LET h == store[DirOf(k)].head
         g == [gor[k] EXCEPT !.verified = gor[k].targetHash]
     IN
       gor' = [gor EXCEPT ![k] =
                 IF h = NoHash THEN Return(@, "reference")
                 ELSE IF Confirmed(h, g.targetHash)
                      THEN [g EXCEPT !.pc = "touch"]
                      ELSE Return(g, "mismatch")]
  /\ JobVarsUnchanged /\ UNCHANGED <<repos, store, touches>>

\* the steps of one goroutine started by process()
Job(k) ==
  \/ Acquire(k) \/ WaitBusy(k) \/ WaitWake(k) \/ WaitIdle(k) \/ SetBusy(k)
  \/ clone(k) \/ Open(k) \/ Loop(k) \/ Fetch(k) \/ Resolve(k) \/ Head_(k)
  \/ Reset(k) \/ Verify(k) \/ touchTrigger(k) \/ Finished(k) \/ Release(k)

Next ==
  \/ InitialCloneBegin \/ InitialCloneStep \/ InitialCloneEnd
  \/ handleFunc
  \/ process
  \/ \E k \in JobIds : Job(k)

Spec == Init /\ [][Next]_vars

\* the scheduler lets every goroutine that can take a step take one: the
\* main goroutine, the dispatch loop, the request handler and each job
\* (whose sleeps end and whose git operations return)
Fairness ==
  /\ WF_vars(InitialCloneBegin \/ InitialCloneStep \/ InitialCloneEnd)
  /\ WF_vars(ValidatePayload \/ PushEvent)
  /\ WF_vars(process)
  /\ \A k \in JobIds : WF_vars(Job(k))

\* the program under a fair scheduler
SpecLive == Init /\ [][Next]_vars /\ Fairness

(* ------------------------ configuration reload ------------------------ *)
JobsUnchanged ==
  UNCHANGED <<jobs, sem, threads, gor, store, touches, main, budget, req, env>>

Max(a, b) == IF a >= b THEN a ELSE b

\* time.Since(C.LastUpdate).Nanoseconds() < 250229410, on a clock that
\* counts whole seconds
Debounced(since) ==
  since < (DebounceNanos + NanosPerSecond - 1) \div NanosPerSecond

\* the configurations viper.Unmarshal(&newC) can yield for the changed file;
\* the repo records of the new snapshot are generation g, their contents
\* one of the lists the file takes
Unmarshal(g) ==
  [Threads : 1..MaxThreads, RetryCount : {C.RetryCount}, Initialise : {C.Initialise},
   LastUpdate : {0}, Repos : {g}]

\* c.refreshTasks(): besides logging and defaults, it stores c.Threads in
\* the shared DataPasser and stamps c.LastUpdate with time.Now()
refreshTasks(c) == [c EXCEPT !.LastUpdate = now]

\* the file watcher reports a change of the configuration file, dt seconds
\* after the previous event of the model
Notify(c, dt) ==
  /\ Running
  /\ cb[c].pc = "none"
  /\ c <= env.notifs
  /\ c > 1 => cb[c - 1].pc # "none"
  /\ now + dt <= MaxTime
  /\ now' = now + dt
  /\ cb' = [cb EXCEPT ![c] = [@ EXCEPT !.pc = "queued", !.arrived = now + dt]]
  /\ JobsUnchanged /\ UNCHANGED <<C, repos, passer, warned, mutex, sig, exited>>

\* the watcher goroutine calls the callback for the next event once the
\* callback for the previous one has returned
CallBack(c) ==
  /\ Running
  /\ cb[c].pc = "queued"
  /\ c > 1 => cb[c - 1].pc = "returned"
  /\ cb' = [cb EXCEPT ![c].pc = "lock"]
  /\ JobsUnchanged /\ UNCHANGED <<C, repos, passer, warned, mutex, sig, now, exited>>

\* mutex.Lock()
Lock(c) ==
  /\ Running
  /\ cb[c].pc = "lock"
  /\ ~mutex
  /\ mutex' = TRUE
  /\ cb' = [cb EXCEPT ![c].pc = "debounce"]
  /\ JobsUnchanged /\ UNCHANGED <<C, repos, passer, warned, sig, now, exited>>

\* the debounce test; the discarded callback returns as it is
Debounce(c) ==
  /\ Running
  /\ cb[c].pc = "debounce"
  /\ cb' = [cb EXCEPT ![c].pc = IF Debounced(now - C.LastUpdate)
                                THEN "returned" ELSE "build"]
  /\ JobsUnchanged /\ UNCHANGED <<C, repos, passer, warned, mutex, sig, now, exited>>

\* var newC config; viper.Unmarshal(&newC); newC.DataPasser = passer;
\* newC.refreshTasks()
Build(c) ==
  /\ Running
  /\ cb[c].pc = "build"
  /\ LET g == Cardinality(DOMAIN repos) IN
     \E n \in Unmarshal(g), rs \in env.configs :
        /\ repos' = [h \in 0..g |-> IF h = g THEN rs ELSE repos[h]]
        /\ cb' = [cb EXCEPT ![c] = [@ EXCEPT !.pc = "poll", !.newC = refreshTasks(n)]]
        /\ passer' = n.Threads
        /\ warned' = validatePathsUniq(rs)
  /\ JobsUnchanged /\ UNCHANGED <<C, mutex, sig, now, exited>>

\* head of the wait loop: repoBusy := false; repos := C.Repos
Poll(c) ==
  /\ Running
  /\ cb[c].pc = "poll"
  /\ cb' = [cb EXCEPT ![c] = [@ EXCEPT !.pc = "scan", !.repoBusy = FALSE,
                                       !.repos = C.Repos, !.idx = 1]]
  /\ JobsUnchanged /\ UNCHANGED <<C, repos, passer, warned, mutex, sig, now, exited>>

\* one iteration of "for _, r := range repos": if r.Busy { repoBusy = true }
Scan(c) ==
  /\ Running
  /\ cb[c].pc = "scan"
  /\ cb[c].idx <= Len(repos[cb[c].repos])
  /\ cb' = [cb EXCEPT ![c] =
              [@ EXCEPT !.idx = @ + 1,
                        !.repoBusy = @ \/ repos[cb[c].repos][cb[c].idx].Busy]]
  /\ JobsUnchanged /\ UNCHANGED <<C, repos, passer, warned, mutex, sig, now, exited>>

\* the range is over: sleep when a busy flag was seen, else go on to the swap
Scanned(c) ==
  /\ Running
  /\ cb[c].pc = "scan"
  /\ cb[c].idx > Len(repos[cb[c].repos])
  /\ cb' = [cb EXCEPT ![c] =
              IF cb[c].repoBusy
              THEN [@ EXCEPT !.pc = "sleep", !.wake = now + ReloadPollSeconds]
              ELSE [@ EXCEPT !.pc = "install"]]
  /\ JobsUnchanged /\ UNCHANGED <<C, repos, passer, warned, mutex, sig, now, exited>>

\* time.Sleep(5 * time.Second) is over
Wake(c) ==
  /\ Running
  /\ cb[c].pc = "sleep"
  /\ Max(now, cb[c].wake) <= MaxTime
  /\ now' = Max(now, cb[c].wake)
  /\ cb' = [cb EXCEPT ![c].pc = "poll"]
  /\ JobsUnchanged /\ UNCHANGED <<C, repos, passer, warned, mutex, sig, exited>>

\* C = newC
Install(c) ==
  /\ Running
  /\ cb[c].pc = "install"
  /\ C' = cb[c].newC
  /\ cb' = [cb EXCEPT ![c] = [@ EXCEPT !.pc = "unlock", !.installed = TRUE]]
  /\ JobsUnchanged /\ UNCHANGED <<repos, passer, warned, mutex, sig, now, exited>>

\* mutex.Unlock(), and the callback returns
Unlock(c) ==
  /\ Running
  /\ cb[c].pc = "unlock"
  /\ mutex' = FALSE
  /\ cb' = [cb EXCEPT ![c].pc = "returned"]
  /\ JobsUnchanged /\ UNCHANGED <<C, repos, passer, warned, sig, now, exited>>

OnConfigChange(c) ==
  \/ CallBack(c) \/ Lock(c) \/ Debounce(c) \/ Build(c) \/ Poll(c) \/ Scan(c)
  \/ Scanned(c) \/ Wake(c) \/ Install(c) \/ Unlock(c)

(* --------------------------- signal handler --------------------------- *)
\* <-signalCh: an interrupt or SIGTERM arrives; head of the loop:
\* busy = false; repos := C.Repos
Signal ==
  /\ Running
  /\ sig.pc = "none"
  /\ sig' = [sig EXCEPT !.pc = "poll"]
  /\ JobsUnchanged /\ UNCHANGED <<C, repos, passer, warned, mutex, cb, now, exited>>

SigPoll ==
  /\ Running
  /\ sig.pc = "poll"
  /\ sig' = [sig EXCEPT !.pc = "scan", !.busy = FALSE, !.repos = C.Repos, !.idx = 1]
  /\ JobsUnchanged /\ UNCHANGED <<C, repos, passer, warned, mutex, cb, now, exited>>

\* one iteration of "for _, r := range repos": if r.Busy { busy = true }
SigScan ==
  /\ Running
  /\ sig.pc = "scan"
  /\ sig.idx <= Len(repos[sig.repos])
  /\ sig' = [sig EXCEPT !.idx = @ + 1,
                        !.busy = @ \/ repos[sig.repos][sig.idx].Busy]
  /\ JobsUnchanged /\ UNCHANGED <<C, repos, passer, warned, mutex, cb, now, exited>>

\* the range is over: sleep when a busy flag was seen, else shut down
SigScanned ==
  /\ Running
  /\ sig.pc = "scan"
  /\ sig.idx > Len(repos[sig.repos])
  /\ sig' = IF sig.busy
            THEN [sig EXCEPT !.pc = "sleep", !.wake = now + ShutdownPollSeconds]
            ELSE [sig EXCEPT !.pc = "exit"]
  /\ JobsUnchanged /\ UNCHANGED <<C, repos, passer, warned, mutex, cb, now, exited>>

\* time.Sleep(5 * time.Second) is over
SigWake ==
  /\ Running
  /\ sig.pc = "sleep"
  /\ Max(now, sig.wake) <= MaxTime
  /\ now' = Max(now, sig.wake)
  /\ sig' = [sig EXCEPT !.pc = "poll"]
  /\ JobsUnchanged /\ UNCHANGED <<C, repos, passer, warned, mutex, cb, exited>>

\* os.Exit(0)
Exit ==
  /\ Running
  /\ sig.pc = "exit"
  /\ exited' = TRUE
  /\ sig' = [sig EXCEPT !.pc = "exited"]
  /\ JobsUnchanged /\ UNCHANGED <<C, repos, passer, warned, mutex, cb, now>>

SignalHandler == Signal \/ SigPoll \/ SigScan \/ SigScanned \/ SigWake \/ Exit

\* a start with the defaults of retry_count and initialise, a checkout
\* that is behind its remote branch, and n jobs to come
InitDefaults(n, e) ==
  /\ C \in [Threads : {MaxThreads}, RetryCount : {1}, Initialise : {TRUE},
            LastUpdate : {0}, Repos : {0}]
  /\ store \in { st \in InitStore : /\ st[1] = [exists |-> TRUE, ref |-> 2, head |-> 1]
                                     /\ (st[2].exists => st[2].ref = 3) }
  /\ env = e
  /\ Startup(n)

InitReload ==
  InitDefaults(MaxReloadJobs,
               [requests |-> PushRequests, configs |-> {RepoList}, notifs |-> MaxNotif])

InitShutdown ==
  InitDefaults(MaxJobs, [requests |-> PushRequests, configs |-> {RepoList}, notifs |-> 0])

\* the steps of a goroutine started by process(), with the sleep of a
\* waiting job left implicit: the job stays at the head of its wait loop
\* until it finds the flag clear
JobNoSleep(k) ==
  \/ Acquire(k) \/ WaitIdle(k) \/ SetBusy(k)
  \/ clone(k) \/ Open(k) \/ Loop(k) \/ Fetch(k) \/ Resolve(k) \/ Head_(k)
  \/ Reset(k) \/ Verify(k) \/ touchTrigger(k) \/ Finished(k) \/ Release(k)

\* the program while the configuration file changes
NextReload ==
  \/ InitialCloneBegin \/ InitialCloneStep \/ InitialCloneEnd
  \/ handleFunc
  \/ process
  \/ \E k \in JobIds : JobNoSleep(k)
  \/ \E c \in 1..MaxNotif : \E dt \in {0, 1} : Notify(c, dt)
  \/ \E c \in 1..MaxNotif : OnConfigChange(c)

SpecReload == InitReload /\ [][NextReload]_vars

\* pushes to both repositories, and a push of RepoB that its sender
\* addresses to the path of RepoA
SwapRequests ==
  { Push(RepoA, <<"/", "a", "/">>, "s1"), Push(RepoB, <<"/", "b">>, "s2"),
    Push(RepoB, <<"/", "a">>, "s2") }

\* one change of the configuration file, which may reorder the repository
\* list, while two jobs come in
InitSwap ==
  InitDefaults(MaxJobs,
               [requests |-> SwapRequests, configs |-> {RepoList, <<RepoB, RepoA>>},
                notifs |-> 1])

SpecSwap == InitSwap /\ [][NextReload]_vars

\* the program when a termination signal arrives
NextShutdown == Next \/ SignalHandler

SpecShutdown == InitShutdown /\ [][NextShutdown]_vars

(* ------------------------- startup and routing ------------------------ *)
\* C.refreshTasks() in main(), before the file watcher and process() start
MainRefreshTasks ==
  /\ Running
  /\ main.pc = "refreshTasks"
  /\ C' = refreshTasks(C)
  /\ passer' = C.Threads
  /\ warned' = validatePathsUniq(repos[C.Repos])
  /\ main' = [main EXCEPT !.pc = "initialClone"]
  /\ UNCHANGED <<repos, jobs, sem, threads, gor, store, touches, budget, mutex,
                 cb, sig, now, exited, req, env>>

\* main() before C.refreshTasks(), for a configuration file with any list
\* of repositories, and clients that send any request
InitRouting ==
  /\ C \in [Threads : {1}, RetryCount : {1}, Initialise : BOOLEAN,
            LastUpdate : {0}, Repos : {0}]
  /\ repos \in [{0} -> RepoLists]
  /\ store \in { st \in InitStore : /\ st[1] = [exists |-> TRUE, ref |-> 2, head |-> 1]
                                     /\ (st[2].exists => st[2].ref = 3) }
  /\ env = [requests |-> AllRequests, configs |-> {}, notifs |-> 0]
  /\ jobs = << >>
  /\ sem = 0
  /\ threads = C.Threads
  /\ passer = C.Threads
  /\ gor = [j \in JobIds |-> NoGor]
  /\ touches = {}
  /\ main = [pc |-> "refreshTasks", gen |-> 0, idx |-> 1]
  /\ budget = MaxJobs
  /\ mutex = FALSE
  /\ cb = [c \in 1..MaxNotif |-> NoCb]
  /\ sig = NoSig
  /\ now = 0
  /\ exited = FALSE
  /\ req = NoReq
  /\ warned = << >>

\* main() and the request handlers
NextRouting ==
  \/ MainRefreshTasks
  \/ InitialCloneBegin \/ InitialCloneStep \/ InitialCloneEnd
  \/ handleFunc

SpecRouting == InitRouting /\ [][NextRouting]_vars

(* ====================================================================== *)
(* Properties                                                             *)
(* ====================================================================== *)
\* goroutine k is between "r.Busy = true" and its finished() call
InOp(k) ==
  gor[k].pc \in {"clone", "open", "loop", "fetch", "resolve", "head", "reset",
                 "verify", "touch", "finished"}

\* goroutine k holds a permit: after "sem <- struct{}{}", before "<-sem"
HoldsPermit(k) == gor[k].pc \notin {"none", "spawned", "done"}

Holders == { k \in JobIds : HoldsPermit(k) }

\* goroutine k is an Update past its fetch loop
PastFetch(k) ==
  \/ gor[k].pc \in {"resolve", "head", "reset", "verify", "touch"}
  \/ gor[k].resolved
  \/ gor[k].resetTo # NoHash
  \/ gor[k].touched

\* C1: for a single repository record no two Clone/Update executions
\* overlap: at most one job is between setting Busy and its finished() call.
C1_NoOverlap ==
  \A j, k \in JobIds :
     (j # k /\ InOp(j) /\ InOp(k)) => gor[j].repo # gor[k].repo

\* C2: the number of jobs holding a dispatcher permit, hence the number of
\* Clone/Update operations executing, never exceeds the limit the
\* dispatcher was created with.
C2_PermitBound ==
  /\ Cardinality(Holders) <= threads
  /\ sem = Cardinality(Holders)

\* C2 witness: the limit is reached while a further pulled job waits for a
\* permit.
C2_Witness ==
  /\ Cardinality(Holders) = threads
  /\ \E k \in JobIds : gor[k].pc = "spawned"
  /\ \E k \in JobIds : InOp(k)

\* C3: an Update whose fetch attempts all failed with a genuine error does
\* no reference resolution, no hard reset and no trigger touch; a hard reset
\* happens only after a fetch attempt of the same Update returned success
\* (stated for retry_count > 0, where there is an attempt to fail).
C3_ExhaustedFetchAborts ==
  \A k \in JobIds :
     (gor[k].jobType = "update" /\ C.RetryCount > 0) =>
        /\ gor[k].fetched = "error" => ~(gor[k].resolved \/ gor[k].resetTo # NoHash
                                          \/ gor[k].touched)
        /\ gor[k].resetTo # NoHash => gor[k].fetched = "nil"

\* C4: after a fetch attempt returned "already up to date" the Update ends
\* at once: no further fetch, no resolution, no reset, no trigger touch;
\* and its return clears the busy flag.
C4_UpToDateEnds ==
  /\ [](\A k \in JobIds :
          gor[k].fetched = "uptodate" =>
             /\ gor[k].pc \in {"finished", "release"}
             /\ gor[k].exit = "uptodate"
             /\ ~PastFetch(k))
  /\ [][\A k \in JobIds :
          (gor[k].fetched = "uptodate" /\ gor'[k] # gor[k]) =>
             \/ gor[k].pc = "finished" /\ gor'[k].pc = "release"
                  /\ gor'[k].nfetch = gor[k].nfetch /\ ~Rec(gor[k].repo)'.Busy
             \/ gor[k].pc = "release" /\ gor'[k].pc = "done"]_vars

\* C4 witness: an Update that got "already up to date" has returned and
\* the flag of its repository is clear.
C4_Witness ==
  \E k \in JobIds :
     /\ gor[k].fetched = "uptodate" /\ gor[k].pc = "release"
     /\ gor[k].nfetch = 2
     /\ ~Rec(gor[k].repo).Busy

\* the hash C5 expects for goroutine k: the target commit of an annotated
\* tag, the reference hash itself for a branch or a lightweight tag
ExpectedTarget(k) ==
  IF Rec(gor[k].repo).LabelType = "tag" /\ gor[k].remoteRef \in TagObjects
  THEN TagTarget(gor[k].remoteRef)
  ELSE gor[k].remoteRef

\* C5: the hash passed to the hard reset and used in the post-reset
\* verification is the annotated tag's target commit, and the reference
\* hash itself for a branch or a lightweight tag.
C5_ResetsToTarget ==
  [][\A k \in JobIds :
       /\ (gor[k].pc = "reset" /\ gor'[k].pc # "reset") =>
             /\ gor'[k].resetTo = ExpectedTarget(k)
             /\ gor'[k].pc = "verify" => store'[DirOf(k)].head = ExpectedTarget(k)
       /\ (gor[k].pc = "verify" /\ gor'[k].pc # "verify"
             /\ gor'[k].exit # "reference") =>
             /\ gor'[k].verified = ExpectedTarget(k)
             /\ gor'[k].pc = "touch" <=> store[DirOf(k)].head = ExpectedTarget(k)]_vars

\* C5 witness: an annotated tag has been reset to its target commit.
C5_Witness ==
  \E k \in JobIds :
     /\ gor[k].pc = "verify"
     /\ gor[k].remoteRef \in TagObjects
     /\ gor[k].resetTo = TagTarget(gor[k].remoteRef)
     /\ gor[k].resetTo # gor[k].remoteRef

\* C6: an Update touches the trigger only after a hard reset and a re-read
\* HEAD equal to the target hash; on a mismatch it ends as failed, without
\* touching the trigger and without retrying.
C6_TouchOnlyConfirmed ==
  /\ [](\A k \in JobIds :
          gor[k].jobType = "update" =>
             /\ (gor[k].pc = "touch" \/ gor[k].touched) =>
                   /\ gor[k].resetTo # NoHash
                   /\ gor[k].verified = gor[k].resetTo
             /\ gor[k].exit = "mismatch" =>
                   /\ ~gor[k].touched
                   /\ gor[k].pc \in {"finished", "release"})
  /\ [][\A k \in JobIds :
          (gor[k].pc = "verify" /\ gor'[k].pc # "verify") =>
             /\ gor'[k].pc = "touch" => store[DirOf(k)].head = gor[k].targetHash
             /\ (store[DirOf(k)].head # gor[k].targetHash) =>
                   /\ gor'[k].pc = "finished"
                   /\ gor'[k].exit \in {"mismatch", "reference"}
                   /\ gor'[k].nfetch = gor[k].nfetch
                   /\ touches' = touches]_vars

\* C6 witness: an Update ended on a post-reset mismatch.
C6_Witness ==
  \E k \in JobIds :
     /\ gor[k].exit = "mismatch" /\ gor[k].pc = "release"
     /\ ~gor[k].touched

\* the pointers to the repo records that exist
Records == { p \in (DOMAIN repos) \X (1..Len(RepoList)) : p[2] <= Len(repos[p[1]]) }

\* C7: every Clone and Update clears the busy flag when it returns, on
\* every exit path; when no operation is running on a repository record its
\* busy flag is false.
C7_BusyCleared ==
  /\ [](\A p \in Records :
          Rec(p).Busy => \E k \in JobIds : gor[k].repo = p /\ InOp(k))
  /\ [][\A k \in JobIds :
          (InOp(k) /\ ~InOp(k)') =>
             /\ gor[k].pc = "finished" /\ gor'[k].pc = "release"
             /\ ~Rec(gor[k].repo)'.Busy]_vars

\* C7 witness: an operation that ended on an error path has returned and
\* the flag is clear.
C7_Witness ==
  \E k \in JobIds :
     /\ gor[k].pc = "release"
     /\ gor[k].exit = "reset"
     /\ ~Rec(gor[k].repo).Busy

\* the busy flags of the records C.Repos points to are all clear
ActiveIdle == \A i \in 1..Len(repos[C.Repos]) : ~repos[C.Repos][i].Busy

\* C8: a reload does not install the new snapshot while a repo record of
\* the active set has its busy flag set.
C8_InstallOnlyWhenIdle ==
  [][\A c \in 1..MaxNotif :
       (cb[c].pc = "install" /\ cb'[c].pc = "unlock") => ActiveIdle]_vars

\* C9: after a termination signal the process does not exit while a repo
\* record of the active set has its busy flag set.
C9_ExitOnlyWhenIdle == exited => ActiveIdle

\* C10: two file-change notifications that arrive within the debounce
\* window of each other lead to one snapshot install, not two.
C10_OneReloadPerBurst ==
  \A a, b \in 1..MaxNotif :
     (a < b /\ cb[b].pc # "none" /\ Debounced(cb[b].arrived - cb[a].arrived)) =>
        ~(cb[a].installed /\ cb[b].installed)

\* the job handleFunc sends for the request it is serving
UpdateJob == [repo |-> <<C.Repos, req.idx>>, jobType |-> "update"]

\* the event of the request being served is a push whose URL is the
\* repo's and whose ref is refs/heads/<label> or refs/tags/<label>
Accepted ==
  LET rec == repos[C.Repos][req.idx] IN
    /\ req.r.type = "push"
    /\ req.r.url = rec.URL
    /\ req.r.ref \in { <<"refs/heads/">> \o rec.Label, <<"refs/tags/">> \o rec.Label }

\* C11: a push webhook routed to a repository enqueues exactly one Update
\* job when its URL is the configured one and its ref is refs/heads/<label>
\* or refs/tags/<label>; any other push, and any other event, enqueues none.
C11_EnqueueIffMatch ==
  [][(req.pc = "event" /\ req'.pc = "idle") =>
       IF Accepted THEN jobs' = Append(jobs, UpdateJob) ELSE jobs' = jobs]_vars

\* C12: a job on a repo record of one configuration generation and a job
\* on the record of another generation for the same path never execute
\* Clone/Update at the same time.
C12_NoOverlapAcrossReload ==
  \A j, k \in JobIds :
     (j # k /\ InOp(j) /\ InOp(k) /\ gor[j].repo[1] # gor[k].repo[1]) =>
        Rec(gor[j].repo).Path # Rec(gor[k].repo).Path

\* C13: the dispatcher's bound follows the installed configuration: a job
\* gets a permit only when, with it, at most C.Threads jobs hold one; so
\* after a reload that changed threads, the new limit bounds the jobs.
C13_BoundFollowsReload ==
  [][\A k \in JobIds :
       (gor[k].pc = "spawned" /\ gor'[k].pc = "wait") =>
          Cardinality(Holders)' <= C.Threads]_vars

\* the repos of the active list whose path an earlier repo has too
Duplicates ==
  { i \in 1..Len(repos[C.Repos]) :
      \E j \in 1..(i - 1) : repos[C.Repos][j].Path = repos[C.Repos][i].Path }

\* C14: with several repositories on one path a request is routed to the
\* first of them in configuration order, and the uniqueness check warns
\* exactly once for each later repository whose path was already seen.
C14_FirstOfDuplicates ==
  /\ req.pc # "idle" =>
        /\ repos[C.Repos][req.idx].Path = cleanURL(req.r.path)
        /\ \A j \in 1..(req.idx - 1) : repos[C.Repos][j].Path # cleanURL(req.r.path)
  /\ main.pc # "refreshTasks" =>
        /\ Len(warned) = Cardinality(Duplicates)
        /\ { warned[n] : n \in 1..Len(warned) } = Duplicates

\* C14 witness: three repositories share one path; the check has warned
\* about the second and the third, and a request is routed to the first.
C14_Witness ==
  /\ Len(repos[C.Repos]) = 3
  /\ Duplicates = {2, 3}
  /\ warned = <<2, 3>>
  /\ req.pc = "event"
  /\ req.idx = 1

\* the Clone job initialClone sends for the repo its loop is at
CloneJob == [repo |-> <<main.gen, main.idx>>, jobType |-> "clone"]

\* a Clone job is in the queue or being executed
SomeCloneJob ==
  \/ \E n \in 1..Len(jobs) : jobs[n].jobType = "clone"
  \/ \E k \in JobIds : gor[k].jobType = "clone"

\* C15: at startup with initialise enabled the repositories are visited
\* once each, in order, and exactly one Clone job is enqueued for each whose
\* directory does not exist, none for one whose directory exists; all this
\* is over when requests are served; with initialise disabled there is no
\* Clone job at all.
C15_InitialClone ==
  /\ [](/\ ~C.Initialise => ~SomeCloneJob
        /\ main.pc = "serve" => (C.Initialise => main.idx = Len(repos[main.gen]) + 1)
        /\ req.pc # "idle" => main.pc = "serve")
  /\ [][/\ (main.pc = "range" /\ main' # main /\ main.idx <= Len(repos[main.gen])) =>
             /\ main'.idx = main.idx + 1
             /\ IF store[repos[main.gen][main.idx].Directory].exists
                THEN jobs' = jobs
                ELSE jobs' = Append(jobs, CloneJob)
        /\ (main.pc # "range" /\ Len(jobs') > Len(jobs)) =>
             jobs'[Len(jobs')].jobType = "update"]_vars

\* C15 witness: requests are served, initialise is enabled, the directory
\* of the first repository exists and that of the second does not, and the
\* queue holds the one Clone job, for the second repository.
C15_Witness ==
  /\ main.pc = "serve"
  /\ C.Initialise
  /\ store[1].exists /\ ~store[2].exists
  /\ jobs = << [repo |-> <<0, 2>>, jobType |-> "clone"] >>

\* C16: an Update that, after a successful fetch, finds the local HEAD
\* equal to the target hash (the target commit of an annotated tag, else
\* the reference hash) returns there: no hard reset, no trigger touch
\* (stated for an Update that runs alone).
C16_NoOpWhenAtTarget ==
  [][\A k \in JobIds :
       (gor[k].pc = "head" /\ gor'[k].pc # "head"
          /\ gor[k].fetched = "nil"
          /\ (\A j \in JobIds \ {k} : ~InOp(j))
          /\ store[DirOf(k)].head = ExpectedTarget(k)) =>
          /\ gor'[k].pc = "finished"
          /\ gor'[k].exit = "same"
          /\ gor'[k].resetTo = NoHash
          /\ ~gor'[k].touched]_vars

\* no goroutine is executing Clone or Update, on a record of any generation
NoneExecuting == \A k \in JobIds : ~InOp(k)

\* C17: the swap C = newC never happens while a Clone or Update is
\* executing.
C17_SwapOnlyWhenNoneExecuting ==
  [][\A c \in 1..MaxNotif :
       (cb[c].pc = "install" /\ cb'[c].installed) => NoneExecuting]_vars

\* C18: after a termination signal the process never exits while a Clone
\* or Update is executing, on a record of whichever generation.
C18_ExitOnlyWhenNoneExecuting == exited => NoneExecuting

\* C19: the reload lock is released at the end of every file-change
\* callback, the one discarded by the debounce test included (so that a
\* later notification can take the lock and be processed).
C19_LockReleasedOnReturn ==
  [][\A c \in 1..MaxNotif :
       (cb[c].pc # "returned" /\ cb'[c].pc = "returned") => ~mutex']_vars

\* C20: the job a webhook enqueues references a record of the snapshot
\* that is active then, and that record is the one whose path matched the
\* request and whose secret validated it, also when the snapshot is swapped
\* while the request is handled.
C20_JobForMatchedRecord ==
  [][(req.pc = "event" /\ req'.pc = "idle" /\ Len(jobs') > Len(jobs)) =>
       LET p == jobs'[Len(jobs')].repo IN
         /\ p[1] = C.Repos
         /\ Rec(p).Path = cleanURL(req.r.path)
         /\ Rec(p).Secret = req.r.key]_vars

\* goroutine k has got its permit (and may have finished since)
Dispatched(k) == gor[k].pc \notin {"none", "spawned"}

\* C21: jobs get their permits in the order they were enqueued: process()
\* pulls them in queue order and numbers its goroutines in that order, so a
\* goroutine has its permit only when every earlier one has had its own.
C21_FifoDispatch ==
  \A j, k \in JobIds : (j < k /\ Dispatched(k)) => Dispatched(j)

\* C22: an Update makes at most retry_count fetch attempts, and makes an
\* attempt only as its first or after an attempt that failed with a genuine
\* error: none after a success or an "already up to date".
C22_FetchAttempts ==
  /\ [](\A k \in JobIds : gor[k].nfetch <= C.RetryCount)
  /\ [][\A k \in JobIds :
          (gor'[k].nfetch # gor[k].nfetch /\ gor'[k].pc # "done") =>
             /\ gor[k].pc = "fetch"
             /\ gor'[k].nfetch = gor[k].nfetch + 1
             /\ gor[k].fetched = (IF gor[k].nfetch = 0 THEN "" ELSE "error")]_vars

\* C22 witness: with retry_count 2, the second and last attempt of an
\* Update succeeded after the first had failed.
C22_Witness ==
  \E k \in JobIds :
     /\ C.RetryCount = 2
     /\ gor[k].nfetch = 2
     /\ gor[k].fetched = "nil"
     /\ gor[k].pc = "resolve"

\* C23: the last-reload timestamp of the configuration a reload installs
\* is not earlier than the moment of the swap: it is taken after the wait
\* for idle repositories (stated for a reload that had to sleep in it).
C23_StampAtSwap ==
  [][\A c \in 1..MaxNotif :
       (cb[c].pc = "install" /\ cb'[c].installed /\ cb[c].wake # 0) =>
          C'.LastUpdate >= now]_vars

\* nothing is queued or running: every permit is back and every busy flag
\* is false
Settled ==
  /\ jobs = << >>
  /\ \A k \in JobIds : gor[k].pc \in {"none", "done"}
  /\ sem = 0
  /\ \A p \in Records : ~Rec(p).Busy

====
